---- MODULE Spec2Model ----
(***************************************************************************)
(* Cache-Control directive parser (package cache).                         *)
(*                                                                         *)
(* A header value is a Go string, modelled as a sequence of byte values    *)
(* (0..255).  Go indexes strings from 0; At and Slice below keep the       *)
(* source's 0-based positions so that index, tokenEnd, valueStart and      *)
(* valueEnd carry the same numbers as in the code.                         *)
(***************************************************************************)
EXTENDS Integers, Sequences, FiniteSets, TLC

(* ---- bounds of the checked input families ---- *)
MaxLen == 5
MaxItems == 2
MaxDigitChunks == 2

(* ---- byte literals that appear in the source ---- *)
Tab == 9
Space == 32
Quote == 34
Comma == 44
Equals == 61
QMark == 63
Backslash == 92
Del == 127
MaxInt32 == 2147483647

(* ---- directive names (part_001 lines 5-20), as byte strings ---- *)
HeaderMaxAge == <<109,97,120,45,97,103,101>>
HeaderNoCache == <<110,111,45,99,97,99,104,101>>
HeaderNoStore == <<110,111,45,115,116,111,114,101>>
HeaderMaxStale == <<109,97,120,45,115,116,97,108,101>>
HeaderMinFresh == <<109,105,110,45,102,114,101,115,104>>
HeaderNoTransform == <<110,111,45,116,114,97,110,115,102,111,114,109>>
HeaderOnlyIfCached == <<111,110,108,121,45,105,102,45,99,97,99,104,101,100>>
HeaderPublic == <<112,117,98,108,105,99>>
HeaderPrivate == <<112,114,105,118,97,116,101>>
HeaderSMaxAge == <<115,45,109,97,120,97,103,101>>
HeaderImmutable == <<105,109,109,117,116,97,98,108,101>>
HeaderStaleIfError == <<115,116,97,108,101,45,105,102,45,101,114,114,111,114>>
HeaderMustRevalidate == <<109,117,115,116,45,114,101,118,97,108,105,100,97,116,101>>
HeaderProxyRevalidate == <<112,114,111,120,121,45,114,101,118,97,108,105,100,97,116,101>>
HeaderStaleWhileRevalidate == <<115,116,97,108,101,45,119,104,105,108,101,45,114,101,118,97,108,105,100,97,116,101>>

(* ---- Go string primitives ---- *)
\* s[i] with Go's 0-based index
At(s, i) == s[i + 1]
\* s[a:b]
Slice(s, a, b) == SubSeq(s, a + 1, b)

\* strings.ToLower on a string of 7-bit bytes: 'A'..'Z' map to 'a'..'z'.
\* Every input of the model is 7-bit, where ToLower is exactly this map.
lowerByte(c) == IF c >= 65 /\ c <= 90 THEN c + 32 ELSE c
ToLower(s) == [i \in 1..Len(s) |-> lowerByte(s[i])]

(* ---- lexical classifier (part_000) ---- *)
isWhiteSpace(c) == c = Tab \/ c = Space

isSeparator(c) ==
    c \in {40, 41, 60, 62, 64, Comma, 59, 58, Backslash, Quote, 47, 91, 93,
           63, Equals, 123, 125, Space, Tab}

isCtl(c) == (c <= 31) \/ c = Del

isChar(c) == c <= 127

isAnyText(c) == ~isCtl(c)

isQdText(c) == isAnyText(c) /\ c # Quote

isToken(c) == isChar(c) /\ ~isCtl(c) /\ ~isSeparator(c)

(* ---- quoted-string parser (part_001 lines 135-199) ---- *)
unquotePair(b) ==
    CASE b = 97 -> 7
      [] b = 98 -> 8
      [] b = 102 -> 12
      [] b = 110 -> 10
      [] b = 114 -> 13
      [] b = 116 -> 9
      [] b = 118 -> 11
      [] b = Backslash -> Backslash
      [] b = 39 -> 39
      [] b = Quote -> Quote
      [] OTHER -> QMark

QuoteFail == [eaten |-> -1, value |-> <<>>]

\* the for loop of parseQuotedString: i is the loop variable, buf[0:bufIdx] the
\* bytes written so far
RECURSIVE quotedLoop(_, _, _)
quotedLoop(raw, i, buf) ==
    IF i >= Len(raw) THEN QuoteFail
    ELSE LET b == At(raw, i) IN
         IF b = Quote THEN [eaten |-> i + 1, value |-> buf]
         ELSE IF b = Backslash
              THEN IF Len(raw) < i + 2 THEN QuoteFail
                   ELSE quotedLoop(raw, i + 2, Append(buf, unquotePair(At(raw, i + 1))))
              ELSE quotedLoop(raw, i + 1, Append(buf, IF isQdText(b) THEN b ELSE QMark))

parseQuotedString(raw) ==
    IF At(raw, 0) # Quote THEN QuoteFail ELSE quotedLoop(raw, 1, <<>>)

\* variant: no name keeps its commas
tokenRequireExtensionFields_Never(token) == FALSE
tokenRequireExtensionFields(token) == token \in {HeaderNoCache, HeaderPrivate}

(* ---- errors (directive.go lines 13-29, part_001 line 31) ---- *)
\* an error value: the sentinel it is (or wraps, via %w), and the wrapped cause
NoErr == [sentinel |-> "nil", cause |-> "nil"]
Err(name) == [sentinel |-> name, cause |-> "nil"]
Wrap(name, cause) == [sentinel |-> name, cause |-> cause]
ErrMissingClosingQuote == Err("ErrMissingClosingQuote")

(* ---- delta-seconds validator (directive.go lines 319-334) ---- *)
\* strconv.ParseUint(s, 10, 32).  The accumulator is an unsigned 32-bit value
\* kept as two 16-bit limbs, n = hi * 65536 + lo, so that every value up to
\* 1<<32 - 1 is exact.  A digit that takes n past 1<<32 - 1 returns ErrRange
\* at once, before the rest of the string is looked at.
RECURSIVE parseUintLoop(_, _, _, _)
parseUintLoop(s, i, hi, lo) ==
    IF i >= Len(s) THEN [hi |-> hi, lo |-> lo, err |-> "nil"]
    ELSE LET c == At(s, i) IN
         IF c < 48 \/ c > 57 THEN [hi |-> 0, lo |-> 0, err |-> "ErrSyntax"]
         ELSE LET d == c - 48
                  l1 == lo * 10 + d
                  h1 == hi * 10 + (l1 \div 65536)
              IN IF h1 > 65535
                 THEN [hi |-> 65535, lo |-> 65535, err |-> "ErrRange"]
                 ELSE parseUintLoop(s, i + 1, h1, l1 % 65536)

ParseUint(s) ==
    IF Len(s) = 0 THEN [hi |-> 0, lo |-> 0, err |-> "ErrSyntax"]
    ELSE parseUintLoop(s, 0, 0, 0)

\* variant: a range error is returned like any other parse error
validateDeltaSeconds_NoSaturate(delta) ==
    LET r == ParseUint(delta) IN
    IF r.err # "nil" THEN [val |-> -1, err |-> r.err]
    ELSE IF r.hi >= 32768 THEN [val |-> MaxInt32, err |-> "nil"]
         ELSE [val |-> r.hi * 65536 + r.lo, err |-> "nil"]

validateDeltaSeconds(delta) ==
    LET r == ParseUint(delta) IN
    IF r.err # "nil"
    THEN IF r.err = "ErrRange" THEN [val |-> MaxInt32, err |-> "nil"]
         ELSE [val |-> -1, err |-> r.err]
    ELSE IF r.hi >= 32768 THEN [val |-> MaxInt32, err |-> "nil"]
         ELSE [val |-> r.hi * 65536 + r.lo, err |-> "nil"]

(* ---- field-name lists of no-cache / private (directive.go lines 271-275) ---- *)
\* strings.Split(val, ","): the pieces between commas; one piece when there is none
RECURSIVE Split(_)
Split(s) ==
    IF \E i \in 1..Len(s) : s[i] = Comma
    THEN LET i == CHOOSE k \in 1..Len(s) :
                     s[k] = Comma /\ \A j \in 1..(k - 1) : s[j] # Comma
         IN <<SubSeq(s, 1, i - 1)>> \o Split(SubSeq(s, i + 1, Len(s)))
    ELSE <<s>>

\* textproto.TrimString: drop leading and trailing ' ', '\t', '\n', '\r'
isASCIISpace(c) == c \in {Space, Tab, 10, 13}
RECURSIVE TrimString(_)
TrimString(s) ==
    IF Len(s) > 0 /\ isASCIISpace(s[1]) THEN TrimString(Tail(s))
    ELSE IF Len(s) > 0 /\ isASCIISpace(s[Len(s)]) THEN TrimString(SubSeq(s, 1, Len(s) - 1))
    ELSE s

\* http.CanonicalHeaderKey: a key holding a byte that is no header-field byte is
\* returned unchanged; otherwise the first letter and every letter after '-' is
\* upper-cased and every other letter lower-cased
validHeaderFieldByte(c) == c >= 33 /\ c <= 126 /\ ~isSeparator(c)
CanonicalHeaderKey(s) ==
    IF \E i \in 1..Len(s) : ~validHeaderFieldByte(s[i]) THEN s
    ELSE [i \in 1..Len(s) |->
            LET upper == (i = 1) \/ s[i - 1] = 45 IN
            IF upper /\ s[i] >= 97 /\ s[i] <= 122 THEN s[i] - 32
            ELSE IF ~upper /\ s[i] >= 65 /\ s[i] <= 90 THEN s[i] + 32
            ELSE s[i]]

\* the for-range loop over the pieces: the keys put into the map
FieldNames(val) ==
    LET vals == Split(val) IN
    {CanonicalHeaderKey(TrimString(vals[i])) : i \in 1..Len(vals)}

(* ---- request directive assembler (directive.go lines 36-138) ---- *)
\* &RequestCacheDirective{MaxAge: -1, MaxStale: -1, MinFresh: -1}
NewRequest ==
    [MaxAge |-> -1, MaxStale |-> -1, MinFresh |-> -1, NoCache |-> FALSE,
     NoStore |-> FALSE, OnlyIfCached |-> FALSE, Extensions |-> <<>>]

\* a sink call returns the record as it leaves it and the error
Ok(d) == [d |-> d, err |-> NoErr]
Fail(d, e) == [d |-> d, err |-> e]

\* directive.Extensions = append(directive.Extensions, e)
appendExtension_Drop(d, e) == d
appendExtension(d, e) == [d EXCEPT !.Extensions = Append(@, e)]

\* key + "=" + val
extensionPair_KeyOnly(key, val) == key
extensionPair(key, val) == key \o <<Equals>> \o val

\* one delta-seconds case of setPair: validate, wrap the failure, store the value
SetDelta(d, field, sentinel, val) ==
    LET r == validateDeltaSeconds(val) IN
    IF r.err # "nil" THEN Fail(d, Wrap(sentinel, r.err))
    ELSE Ok([d EXCEPT ![field] = r.val])

\* variant: a bare max-stale is accepted as "any staleness"
RequestSetToken_BareMaxStale(d, token) ==
    CASE token = HeaderMaxAge -> Fail(d, Err("ErrMaxAgeDeltaSeconds"))
      [] token = HeaderMaxStale -> Ok([d EXCEPT !.MaxStale = MaxInt32])
      [] token = HeaderMinFresh -> Fail(d, Err("ErrMinFreshDeltaSeconds"))
      [] token = HeaderNoCache -> Ok([d EXCEPT !.NoCache = TRUE])
      [] token = HeaderNoStore -> Ok([d EXCEPT !.NoStore = TRUE])
      [] token = HeaderOnlyIfCached -> Ok([d EXCEPT !.OnlyIfCached = TRUE])
      [] OTHER -> Ok(appendExtension(d, token))

RequestSetToken(d, token) ==
    CASE token = HeaderMaxAge -> Fail(d, Err("ErrMaxAgeDeltaSeconds"))
      [] token = HeaderMaxStale -> Fail(d, Err("ErrMaxStaleDeltaSeconds"))
      [] token = HeaderMinFresh -> Fail(d, Err("ErrMinFreshDeltaSeconds"))
      [] token = HeaderNoCache -> Ok([d EXCEPT !.NoCache = TRUE])
      [] token = HeaderNoStore -> Ok([d EXCEPT !.NoStore = TRUE])
      [] token = HeaderOnlyIfCached -> Ok([d EXCEPT !.OnlyIfCached = TRUE])
      [] OTHER -> Ok(appendExtension(d, token))

\* variant: the no-store case is missing from the first switch
RequestSetPair_NoStoreUnchecked(d, key, val) ==
    CASE key = HeaderNoCache -> Fail(d, Err("ErrNoCacheDirectiveValue"))
      [] key = HeaderOnlyIfCached -> Fail(d, Err("ErrOnlyIfCachedDirectiveValue"))
      [] key = HeaderMaxAge -> SetDelta(d, "MaxAge", "ErrMaxAgeDeltaSeconds", val)
      [] key = HeaderMaxStale -> SetDelta(d, "MaxStale", "ErrMaxStaleDeltaSeconds", val)
      [] key = HeaderMinFresh -> SetDelta(d, "MinFresh", "ErrMinFreshDeltaSeconds", val)
      [] OTHER -> Ok(appendExtension(d, extensionPair(key, val)))

RequestSetPair(d, key, val) ==
    CASE key = HeaderNoCache -> Fail(d, Err("ErrNoCacheDirectiveValue"))
      [] key = HeaderNoStore -> Fail(d, Err("ErrNoStoreDirectiveValue"))
      [] key = HeaderOnlyIfCached -> Fail(d, Err("ErrOnlyIfCachedDirectiveValue"))
      [] key = HeaderMaxAge -> SetDelta(d, "MaxAge", "ErrMaxAgeDeltaSeconds", val)
      [] key = HeaderMaxStale -> SetDelta(d, "MaxStale", "ErrMaxStaleDeltaSeconds", val)
      [] key = HeaderMinFresh -> SetDelta(d, "MinFresh", "ErrMinFreshDeltaSeconds", val)
      [] OTHER -> Ok(appendExtension(d, extensionPair(key, val)))

(* ---- response directive assembler (directive.go lines 140-317) ---- *)
\* &ResponseCacheDirective{}: every field its zero value; a nil map is the
\* empty set of keys
NewResponse ==
    [MustRevalidate |-> FALSE, NoCache |-> {}, NoCachePresent |-> FALSE,
     NoStore |-> FALSE, NoTransform |-> FALSE, Public |-> FALSE, Private |-> {},
     PrivatePresent |-> FALSE, ProxyRevalidate |-> FALSE, MaxAge |-> 0,
     SMaxAge |-> 0, Immutable |-> FALSE, StaleIfError |-> 0,
     StaleWhileRevalidate |-> 0, Extensions |-> <<>>]

\* variant: the bare private case is missing from the second switch
ResponseSetToken_NoBarePrivate(d, token) ==
    CASE token = HeaderMaxAge -> Fail(d, Err("ErrMaxAgeDeltaSeconds"))
      [] token = HeaderSMaxAge -> Fail(d, Err("ErrSMaxAgeDeltaSeconds"))
      [] token = HeaderStaleIfError -> Fail(d, Err("ErrStaleIfErrorDeltaSeconds"))
      [] token = HeaderStaleWhileRevalidate ->
            Fail(d, Err("ErrStaleWhileRevalidateDeltaSeconds"))
      [] token = HeaderPublic -> Ok([d EXCEPT !.Public = TRUE])
      [] token = HeaderNoStore -> Ok([d EXCEPT !.NoStore = TRUE])
      [] token = HeaderImmutable -> Ok([d EXCEPT !.Immutable = TRUE])
      [] token = HeaderNoTransform -> Ok([d EXCEPT !.NoTransform = TRUE])
      [] token = HeaderMustRevalidate -> Ok([d EXCEPT !.MustRevalidate = TRUE])
      [] token = HeaderNoCache -> Ok([d EXCEPT !.NoCachePresent = TRUE])
      [] token = HeaderProxyRevalidate -> Ok([d EXCEPT !.ProxyRevalidate = TRUE])
      [] OTHER -> Ok(appendExtension(d, token))

ResponseSetToken(d, token) ==
    CASE token = HeaderMaxAge -> Fail(d, Err("ErrMaxAgeDeltaSeconds"))
      [] token = HeaderSMaxAge -> Fail(d, Err("ErrSMaxAgeDeltaSeconds"))
      [] token = HeaderStaleIfError -> Fail(d, Err("ErrStaleIfErrorDeltaSeconds"))
      [] token = HeaderStaleWhileRevalidate ->
            Fail(d, Err("ErrStaleWhileRevalidateDeltaSeconds"))
      [] token = HeaderPublic -> Ok([d EXCEPT !.Public = TRUE])
      [] token = HeaderNoStore -> Ok([d EXCEPT !.NoStore = TRUE])
      [] token = HeaderImmutable -> Ok([d EXCEPT !.Immutable = TRUE])
      [] token = HeaderNoTransform -> Ok([d EXCEPT !.NoTransform = TRUE])
      [] token = HeaderPrivate -> Ok([d EXCEPT !.PrivatePresent = TRUE])
      [] token = HeaderMustRevalidate -> Ok([d EXCEPT !.MustRevalidate = TRUE])
      [] token = HeaderNoCache -> Ok([d EXCEPT !.NoCachePresent = TRUE])
      [] token = HeaderProxyRevalidate -> Ok([d EXCEPT !.ProxyRevalidate = TRUE])
      [] OTHER -> Ok(appendExtension(d, token))

ResponseSetPair(d, key, val) ==
    CASE key = HeaderMustRevalidate -> Fail(d, Err("ErrMustRevalidateDirectiveValue"))
      [] key = HeaderNoStore -> Fail(d, Err("ErrNoStoreDirectiveValue"))
      [] key = HeaderNoTransform -> Fail(d, Err("ErrNoTransformDirectiveValue"))
      [] key = HeaderPublic -> Fail(d, Err("ErrPublicDirectiveValue"))
      [] key = HeaderProxyRevalidate -> Fail(d, Err("ErrProxyRevalidateDirectiveValue"))
      [] key = HeaderImmutable -> Fail(d, Err("ErrImmutableDirectiveValue"))
      [] key = HeaderNoCache ->
            Ok([d EXCEPT !.NoCachePresent = TRUE, !.NoCache = @ \cup FieldNames(val)])
      [] key = HeaderPrivate ->
            Ok([d EXCEPT !.PrivatePresent = TRUE, !.Private = @ \cup FieldNames(val)])
      [] key = HeaderMaxAge -> SetDelta(d, "MaxAge", "ErrMaxAgeDeltaSeconds", val)
      [] key = HeaderSMaxAge -> SetDelta(d, "SMaxAge", "ErrSMaxAgeDeltaSeconds", val)
      [] key = HeaderStaleIfError ->
            SetDelta(d, "StaleIfError", "ErrStaleIfErrorDeltaSeconds", val)
      [] key = HeaderStaleWhileRevalidate ->
            SetDelta(d, "StaleWhileRevalidate", "ErrStaleWhileRevalidateDeltaSeconds", val)
      [] OTHER -> Ok(appendExtension(d, extensionPair(key, val)))

(* ---- the directive interface (directive.go lines 31-34) ---- *)
setToken(sd, d, token) ==
    IF sd = "request" THEN RequestSetToken(d, token) ELSE ResponseSetToken(d, token)

setPair(sd, d, key, val) ==
    IF sd = "request" THEN RequestSetPair(d, key, val) ELSE ResponseSetPair(d, key, val)

(* ---- state ---- *)
VARIABLES
    val,        \* the header value being parsed
    side,       \* "request": NewRequestCacheDirective, "response": NewResponseCacheDirective
    index,      \* parseCacheControlv's scan position
    d,          \* the directive record the sink fills
    pc,         \* "loop": inside parseCacheControlv's for loop; "done": the constructor returned
    err,        \* the error the constructor returned
    ret,        \* the pointer the constructor returned: <<>> is nil, <<r>> points to r
    delivered,  \* history: the sink calls made so far, in order
    last        \* history: the scan position when the latest loop iteration began

vars == <<val, side, index, d, pc, err, ret, delivered, last>>

(* ---- the inputs checked ---- *)
\* raw byte strings: every string of at most MaxLen bytes over these bytes
\* ('a', '=', ',', ' ', '"', '\')
RawBytes == {97, Equals, Comma, Space, Quote, Backslash}
RawInputs == UNION {[1..n -> RawBytes] : n \in 0..MaxLen}

\* directive lists: a name followed by one of these value forms
\*   (none)  =7  =a,b  ="a, b"  ="x
CoreNames == {HeaderMaxAge, HeaderPrivate, HeaderNoStore, <<102,111,111>>}
CoreForms == {<<>>, <<61,55>>, <<61,97,44,98>>, <<61,34,97,44,32,98,34>>, <<61,34,120>>}
CoreItems == {n \o f : n \in CoreNames, f \in CoreForms}
ItemSeparators == {<<Comma>>, <<Comma, Space>>}
RECURSIVE ItemLists(_)
ItemLists(k) ==
    IF k = 0 THEN {<<>>}
    ELSE IF k = 1 THEN CoreItems
    ELSE LET prev == ItemLists(k - 1) IN
         prev \cup {p \o s \o i : p \in prev, s \in ItemSeparators, i \in CoreItems}

\* single directives: every directive name of the package, one upper-case
\* spelling and one unknown name, each in every value form
\*   (none)  =  =7  =x  =a,b,  ="X-Foo, x-bar"  ="a\"b"  ="x\  ="x<DEL>"
\*   =99999999999x
AllNames ==
    {HeaderMaxAge, HeaderNoCache, HeaderNoStore, HeaderMaxStale, HeaderMinFresh,
     HeaderNoTransform, HeaderOnlyIfCached, HeaderPublic, HeaderPrivate,
     HeaderSMaxAge, HeaderImmutable, HeaderStaleIfError, HeaderMustRevalidate,
     HeaderProxyRevalidate, HeaderStaleWhileRevalidate,
     <<77,65,88,45,65,71,69>>, <<78,111,45,83,116,111,114,101>>,
     <<80,114,105,118,97,116,101>>, <<98,97,122>>}
AllForms ==
    CoreForms \cup
    {<<61>>, <<61,120>>, <<61,97,44,98,44>>,
     <<61,34,88,45,70,111,111,44,32,120,45,98,97,114,34>>,
     <<61,34,97,92,34,98,34>>, <<61,34,120,92>>, <<61,34,120,127,34>>,
     <<61,57,57,57,57,57,57,57,57,57,57,57,120>>}
SingleInputs == {n \o f : n \in AllNames, f \in AllForms}

\* delta-seconds: "max-age=" followed by decimal digits, built from pieces that
\* meet at the 31-bit, 32-bit and 64-bit limits
\*   0  9  00  21474  83647  83648  42949  67295  67296  1844674407  3709551616
DigitChunks ==
    {<<48>>, <<57>>, <<48,48>>, <<50,49,52,55,52>>, <<56,51,54,52,55>>,
     <<56,51,54,52,56>>, <<52,50,57,52,57>>, <<54,55,50,57,53>>,
     <<54,55,50,57,54>>, <<49,56,52,52,54,55,52,52,48,55>>,
     <<51,55,48,57,53,53,49,54,49,54>>}
RECURSIVE DigitStrings(_)
DigitStrings(k) ==
    IF k = 0 THEN {}
    ELSE IF k = 1 THEN DigitChunks
    ELSE LET prev == DigitStrings(k - 1) IN
         prev \cup {p \o c : p \in prev, c \in DigitChunks}
DeltaInputs == {HeaderMaxAge \o <<Equals>> \o n : n \in DigitStrings(MaxDigitChunks)}

Inputs == RawInputs \cup ItemLists(MaxItems) \cup SingleInputs \cup DeltaInputs

(* ---- NewRequestCacheDirective / NewResponseCacheDirective (directive.go 36-42, 140-146) ---- *)
\* the record is allocated and parseCacheControlv entered with index = 0
Init ==
    /\ val \in Inputs
    /\ side \in {"request", "response"}
    /\ index = 0
    /\ d = IF side = "request" THEN NewRequest ELSE NewResponse
    /\ pc = "loop"
    /\ err = NoErr
    /\ ret = <<>>
    /\ delivered = <<>>
    /\ last = -1

(* ---- parseCacheControlv (part_001 lines 51-124) ---- *)
\* lines 64-70: the end of the token that starts at index
RECURSIVE scanToken(_, _)
scanToken(v, te) ==
    IF te < Len(v) /\ isToken(At(v, te)) THEN scanToken(v, te + 1) ELSE te
\* variant: the scan starts at the token's first byte
tokenEnd_FromIndex(v, i) == scanToken(v, i)
tokenEnd(v, i) == scanToken(v, i + 1)

\* line 73
tokenAt(v, i) == ToLower(Slice(v, i, tokenEnd(v, i)))

\* line 77
hasEquals(v, te) == te + 1 < Len(v) /\ At(v, te) = Equals

\* lines 93-100: the end of the unquoted value that starts at ve
RECURSIVE scanValue(_, _, _)
scanValue(v, ve, requireExtensionField) ==
    IF ve < Len(v)
       /\ ~(isWhiteSpace(At(v, ve)) \/ (~requireExtensionField /\ At(v, ve) = Comma))
    THEN scanValue(v, ve + 1, requireExtensionField)
    ELSE ve

\* lines 104-107
stripTrailingComma(value) ==
    IF Len(value) > 0 /\ value[Len(value)] = Comma
    THEN SubSeq(value, 1, Len(value) - 1)
    ELSE value

\* the loop body is entered
InLoop == pc = "loop" /\ index < Len(val)
AtSeparator == isWhiteSpace(At(val, index)) \/ At(val, index) = Comma

\* a sink call as the history records it
Call(kind, quoted, name, value, at) ==
    [kind |-> kind, quoted |-> quoted, name |-> name, value |-> value, at |-> at]

\* return err from parseCacheControlv: the constructor returns nil, err
\* variant: the constructor returns the partly filled record with the error
ReturnError_Partial(e) ==
    /\ pc' = "done"
    /\ err' = e
    /\ ret' = <<d>>
ReturnError(e) ==
    /\ pc' = "done"
    /\ err' = e
    /\ ret' = <<>>

\* lines 58-61
SkipSeparator ==
    /\ InLoop
    /\ last' = index
    /\ AtSeparator
    /\ index' = index + 1
    /\ UNCHANGED <<val, side, d, pc, err, ret, delivered>>

\* lines 112-120
BareToken ==
    /\ InLoop
    /\ last' = index
    /\ ~AtSeparator
    /\ LET te == tokenEnd(val, index)
           token == tokenAt(val, index)
       IN /\ ~hasEquals(val, te)
          /\ IF token # <<Comma>>
             THEN LET r == setToken(side, d, token) IN
                  /\ delivered' = Append(delivered, Call("token", FALSE, token, <<>>, index))
                  /\ d' = r.d
                  /\ IF r.err # NoErr
                     THEN ReturnError(r.err) /\ UNCHANGED index
                     ELSE index' = te /\ UNCHANGED <<pc, err, ret>>
             ELSE index' = te /\ UNCHANGED <<d, pc, err, ret, delivered>>
    /\ UNCHANGED <<val, side>>

\* lines 91-111
UnquotedPair ==
    /\ InLoop
    /\ last' = index
    /\ ~AtSeparator
    /\ LET te == tokenEnd(val, index)
           token == tokenAt(val, index)
           valueStart == te + 1
       IN /\ hasEquals(val, te)
          /\ ~(valueStart < Len(val) /\ At(val, valueStart) = Quote)
          /\ LET valueEnd == scanValue(val, valueStart, tokenRequireExtensionFields(token))
                 value == stripTrailingComma(Slice(val, valueStart, valueEnd))
                 r == setPair(side, d, token, value)
             IN /\ delivered' = Append(delivered, Call("pair", FALSE, token, value, valueStart))
                /\ d' = r.d
                /\ index' = valueEnd
                /\ IF r.err # NoErr
                   THEN ReturnError(r.err)
                   ELSE UNCHANGED <<pc, err, ret>>
    /\ UNCHANGED <<val, side>>

\* lines 81-90
QuotedPair ==
    /\ InLoop
    /\ last' = index
    /\ ~AtSeparator
    /\ LET te == tokenEnd(val, index)
           token == tokenAt(val, index)
           valueStart == te + 1
       IN /\ hasEquals(val, te)
          /\ valueStart < Len(val) /\ At(val, valueStart) = Quote
          /\ LET q == parseQuotedString(Slice(val, valueStart, Len(val))) IN
             IF q.eaten = -1
             THEN /\ ReturnError(ErrMissingClosingQuote)
                  /\ UNCHANGED <<index, d, delivered>>
             ELSE LET r == setPair(side, d, token, q.value) IN
                  /\ index' = valueStart + q.eaten
                  /\ delivered' = Append(delivered, Call("pair", TRUE, token, q.value, valueStart))
                  /\ d' = r.d
                  /\ IF r.err # NoErr
                     THEN ReturnError(r.err)
                     ELSE UNCHANGED <<pc, err, ret>>
    /\ UNCHANGED <<val, side>>

\* line 123, then directive.go lines 41 / 145: return directive, nil
Return ==
    /\ pc = "loop"
    /\ ~(index < Len(val))
    /\ pc' = "done"
    /\ err' = NoErr
    /\ ret' = <<d>>
    /\ UNCHANGED <<val, side, index, d, delivered, last>>

Next == SkipSeparator \/ BareToken \/ UnquotedPair \/ QuotedPair \/ Return

Spec == Init /\ [][Next]_vars

(* ======================================================================= *)
(* Properties                                                              *)
(* ======================================================================= *)
Done == pc = "done"
Succeeded == Done /\ err = NoErr /\ ret # <<>>
Calls == 1..Len(delivered)

(* ---- C1 ---- *)
IsDigits(s) == Len(s) > 0 /\ \A i \in 1..Len(s) : s[i] >= 48 /\ s[i] <= 57
RECURSIVE StripZeros(_)
StripZeros(s) == IF Len(s) > 1 /\ s[1] = 48 THEN StripZeros(Tail(s)) ELSE s
\* the decimal digits of 2147483647
MaxInt32Digits == <<50,49,52,55,52,56,51,54,52,55>>
\* s <= t for two digit strings without leading zeros
DecimalLeq(s, t) ==
    \/ Len(s) < Len(t)
    \/ /\ Len(s) = Len(t)
       /\ \/ s = t
          \/ \E k \in 1..Len(s) : s[k] < t[k] /\ \A j \in 1..(k - 1) : s[j] = t[j]
\* the number a digit string of at most ten digits denotes
RECURSIVE DecimalValue(_)
DecimalValue(s) ==
    IF Len(s) = 0 THEN 0
    ELSE (s[Len(s)] - 48) + 10 * DecimalValue(SubSeq(s, 1, Len(s) - 1))
\* what the claim says MaxAge is for the digit string n
ExpectedDelta(n) ==
    LET t == StripZeros(n) IN
    IF DecimalLeq(t, MaxInt32Digits) THEN DecimalValue(t) ELSE MaxInt32
\* val is "max-age=" followed by one or more decimal digits
MaxAgeDigits == HeaderMaxAge \o <<Equals>>
IsMaxAgeOfDigits ==
    /\ Len(val) > Len(MaxAgeDigits)
    /\ SubSeq(val, 1, Len(MaxAgeDigits)) = MaxAgeDigits
    /\ IsDigits(SubSeq(val, Len(MaxAgeDigits) + 1, Len(val)))
DigitsOfVal == SubSeq(val, Len(MaxAgeDigits) + 1, Len(val))

\* C1: parsing "max-age=" + n, n a non-empty string of decimal digits, never
\* fails on either side, and MaxAge is n when n <= 2147483647 and 2147483647
\* when n is larger, however many digits n has.
C1_DeltaSecondsSaturates ==
    (Done /\ IsMaxAgeOfDigits) =>
        /\ err = NoErr
        /\ ret # <<>>
        /\ ret[1].MaxAge = ExpectedDelta(DigitsOfVal)

\* a value past the unsigned 64-bit range (twenty digits) was parsed and saturated
C1_Witness ==
    /\ Done /\ IsMaxAgeOfDigits
    /\ Len(StripZeros(DigitsOfVal)) >= 20
    /\ ret # <<>> /\ ret[1].MaxAge = MaxInt32

(* ---- tables of the two assemblers, as the claims state them ---- *)
RequiresValue(sd) ==
    IF sd = "request"
    THEN {<<HeaderMaxAge, "ErrMaxAgeDeltaSeconds">>,
          <<HeaderMaxStale, "ErrMaxStaleDeltaSeconds">>,
          <<HeaderMinFresh, "ErrMinFreshDeltaSeconds">>}
    ELSE {<<HeaderMaxAge, "ErrMaxAgeDeltaSeconds">>,
          <<HeaderSMaxAge, "ErrSMaxAgeDeltaSeconds">>,
          <<HeaderStaleIfError, "ErrStaleIfErrorDeltaSeconds">>,
          <<HeaderStaleWhileRevalidate, "ErrStaleWhileRevalidateDeltaSeconds">>}
ForbidsValue(sd) ==
    IF sd = "request"
    THEN {<<HeaderNoCache, "ErrNoCacheDirectiveValue", "NoCache">>,
          <<HeaderNoStore, "ErrNoStoreDirectiveValue", "NoStore">>,
          <<HeaderOnlyIfCached, "ErrOnlyIfCachedDirectiveValue", "OnlyIfCached">>}
    ELSE {<<HeaderMustRevalidate, "ErrMustRevalidateDirectiveValue", "MustRevalidate">>,
          <<HeaderNoStore, "ErrNoStoreDirectiveValue", "NoStore">>,
          <<HeaderNoTransform, "ErrNoTransformDirectiveValue", "NoTransform">>,
          <<HeaderPublic, "ErrPublicDirectiveValue", "Public">>,
          <<HeaderProxyRevalidate, "ErrProxyRevalidateDirectiveValue", "ProxyRevalidate">>,
          <<HeaderImmutable, "ErrImmutableDirectiveValue", "Immutable">>}
DualMode(sd) == IF sd = "request" THEN {} ELSE {HeaderNoCache, HeaderPrivate}
Recognized(sd) ==
    {t[1] : t \in RequiresValue(sd)} \cup {t[1] : t \in ForbidsValue(sd)} \cup DualMode(sd)
\* the extension entry of a sink call
ExtensionOf(c) ==
    IF c.kind = "token" THEN c.name ELSE c.name \o <<Equals>> \o c.value

(* ---- C2 ---- *)
\* C2: a sink call whose name is in neither table of the side never fails: the
\* parse goes on, no error is set, and the call's entry (name, or name=value)
\* is appended to Extensions, in bare, unquoted and quoted form alike; so a
\* failed parse is a structural quoting failure or the failure of a call with a
\* recognized name.
C2_UnrecognizedNeverFails ==
    [][/\ (Len(delivered') = Len(delivered) + 1
            /\ delivered'[Len(delivered')].name \notin Recognized(side))
          => /\ pc' = "loop"
             /\ err' = NoErr
             /\ d'.Extensions = Append(d.Extensions, ExtensionOf(delivered'[Len(delivered')]))
       /\ (pc' = "done" /\ err' # NoErr)
          => \/ err' = ErrMissingClosingQuote /\ delivered' = delivered
             \/ /\ Len(delivered') = Len(delivered) + 1
                /\ delivered'[Len(delivered')].name \in Recognized(side)]_vars

\* an unrecognized name was delivered in all three forms of a successful parse
C2_Witness ==
    /\ Succeeded
    /\ \E i, j \in Calls :
          /\ delivered[i].name \notin Recognized(side) /\ delivered[i].quoted
          /\ delivered[j].name \notin Recognized(side) /\ delivered[j].kind = "token"
    /\ Len(ret[1].Extensions) = 2

(* ---- C3 ---- *)
\* the byte at position k of raw (0-based) is preceded by an even number of
\* backslashes, i.e. it is not the second byte of an escape
RECURSIVE BackslashesBefore(_, _)
BackslashesBefore(raw, k) ==
    IF k > 1 /\ At(raw, k - 1) = Backslash THEN 1 + BackslashesBefore(raw, k - 1) ELSE 0
\* raw starts with a quote that no later unescaped quote closes
Unterminated(raw) ==
    ~ \E k \in 1..(Len(raw) - 1) :
          At(raw, k) = Quote /\ BackslashesBefore(raw, k) % 2 = 0
\* the directive at the scan position is name="...: its name runs from index to
\* an '=' that a quote follows
QuotedValueStarts ==
    {q \in (index + 2)..(Len(val) - 1) :
        /\ At(val, q) = Quote
        /\ At(val, q - 1) = Equals
        /\ \A j \in (index + 1)..(q - 2) : isToken(At(val, j))}

\* C3: when the directive at the scan position has a quoted value with no
\* closing quote (a truncated backslash escape included), the parse ends there
\* with ErrMissingClosingQuote and the constructor returns nil, whatever the
\* sink had accepted before.
C3_UnterminatedQuoteFails ==
    [][(/\ InLoop /\ ~AtSeparator
        /\ \E q \in QuotedValueStarts : Unterminated(Slice(val, q, Len(val))))
       => (pc' = "done" /\ err' = ErrMissingClosingQuote /\ ret' = <<>>)]_vars

\* the parse failed on a quote after the sink had accepted a directive
C3_Witness ==
    /\ Done /\ err = ErrMissingClosingQuote /\ ret = <<>>
    /\ Len(delivered) > 0
    /\ d # (IF side = "request" THEN NewRequest ELSE NewResponse)

(* ---- C4 ---- *)
\* C4: in the record of a successful response parse, NoCachePresent
\* (PrivatePresent) is true exactly when no-cache (private) was delivered to the
\* sink, bare or with a value, and the NoCache (Private) field set is non-empty
\* only if it was delivered with a value.
C4_PresenceAndFields ==
    (Succeeded /\ side = "response") =>
        /\ ret[1].NoCachePresent <=> \E i \in Calls : delivered[i].name = HeaderNoCache
        /\ ret[1].PrivatePresent <=> \E i \in Calls : delivered[i].name = HeaderPrivate
        /\ ret[1].NoCache # {} =>
              \E i \in Calls : delivered[i].name = HeaderNoCache /\ delivered[i].kind = "pair"
        /\ ret[1].Private # {} =>
              \E i \in Calls : delivered[i].name = HeaderPrivate /\ delivered[i].kind = "pair"

\* a response parse that saw private only in bare form
C4_Witness ==
    /\ Succeeded /\ side = "response"
    /\ \E i \in Calls : delivered[i].name = HeaderPrivate
    /\ \A i \in Calls : delivered[i].name = HeaderPrivate => delivered[i].kind = "token"
    /\ ret[1].PrivatePresent /\ ret[1].Private = {}

(* ---- C5 ---- *)
RECURSIVE ExpectedExtensions(_, _)
ExpectedExtensions(calls, sd) ==
    IF calls = <<>> THEN <<>>
    ELSE LET rest == ExpectedExtensions(Tail(calls), sd) IN
         IF Head(calls).name \in Recognized(sd) THEN rest
         ELSE <<ExtensionOf(Head(calls))>> \o rest

\* C5: in the record of a successful parse, Extensions is the sequence of the
\* unrecognized directives in input order, duplicates kept, a bare one as its
\* name and a valued one as name=value; recognized directives add nothing.
C5_ExtensionsInOrder ==
    Succeeded => ret[1].Extensions = ExpectedExtensions(delivered, side)

\* a successful parse that kept a valued extension before a bare one and took
\* a separator between them
C5_Witness ==
    /\ Succeeded
    /\ Len(delivered) = 2
    /\ delivered[1].kind = "pair" /\ delivered[2].kind = "token"
    /\ Len(ret[1].Extensions) = 2
    /\ ret[1].Extensions[1] # ret[1].Extensions[2]

(* ---- C6 ---- *)
\* C6: a value-requiring directive delivered bare ends the parse at that call
\* with the delta-seconds error of that name, and nil is returned.
C6_BareValueRequiredFails ==
    \A i \in Calls : \A t \in RequiresValue(side) :
        (delivered[i].kind = "token" /\ delivered[i].name = t[1]) =>
            /\ i = Len(delivered)
            /\ Done
            /\ err = Err(t[2])
            /\ ret = <<>>

\* a bare value-requiring name was delivered after an accepted directive
C6_Witness ==
    /\ Done /\ ret = <<>>
    /\ Len(delivered) >= 2
    /\ delivered[Len(delivered)].kind = "token"
    /\ delivered[Len(delivered)].name \in {t[1] : t \in RequiresValue(side)}

(* ---- C7 ---- *)
\* C7: a value-forbidding directive delivered with a value ends the parse at
\* that call with the does-not-accept-a-value error of that name and nil is
\* returned; in a returned record its boolean is true exactly when the
\* directive was delivered bare.
C7_ValueForbidden ==
    /\ \A i \in Calls : \A t \in ForbidsValue(side) :
          (delivered[i].kind = "pair" /\ delivered[i].name = t[1]) =>
              /\ i = Len(delivered)
              /\ Done
              /\ err = Err(t[2])
              /\ ret = <<>>
    /\ Succeeded =>
          \A t \in ForbidsValue(side) :
              ret[1][t[3]] <=>
                  \E i \in Calls : delivered[i].kind = "token" /\ delivered[i].name = t[1]

\* a valued no-store was refused after an earlier directive had been accepted
C7_Witness ==
    /\ Done /\ ret = <<>> /\ err = Err("ErrNoStoreDirectiveValue")
    /\ Len(delivered) >= 2
    /\ delivered[Len(delivered)].kind = "pair"

(* ---- C8 ---- *)
\* C8: the scan position never passes the end of the input; every iteration of
\* the loop that stays in the loop has moved it strictly forward, so the loop
\* runs at most Len(val) times; an iteration that did not stay in the loop
\* returned an error; and a parse that returned no error left the loop at the
\* end of the input.
C8_ScanAdvances ==
    /\ index <= Len(val)
    /\ pc = "loop" => last < index
    /\ (Done /\ index <= last) => err # NoErr
    /\ (Done /\ err = NoErr) => index = Len(val)

\* a parse ran through separators, a bare token and a quoted pair to the end
C8_Witness ==
    /\ Succeeded /\ index = Len(val)
    /\ last < index - 1
    /\ \E i, j \in Calls : delivered[i].quoted /\ delivered[j].kind = "token"
    /\ Len(val) > Len(delivered) + 4

(* ---- C9 ---- *)
IsLower(s) == \A k \in 1..Len(s) : ~(s[k] >= 65 /\ s[k] <= 90)
\* C9: every name delivered to the sink is a non-empty lower-case run of token
\* characters.
C9_DeliveredNamesAreTokens ==
    \A i \in Calls :
        /\ Len(delivered[i].name) > 0
        /\ IsLower(delivered[i].name)
        /\ \A k \in 1..Len(delivered[i].name) : isToken(delivered[i].name[k])

(* ---- C10 ---- *)
CommaValued == {HeaderNoCache, HeaderPrivate}
\* where the unquoted value of name that starts at s ends: the first whitespace
\* byte, or for a name outside CommaValued the first comma, or the end of input
ValueStop(name, s) ==
    LET stops == {k \in s..(Len(val) - 1) :
                     \/ isWhiteSpace(At(val, k))
                     \/ (name \notin CommaValued /\ At(val, k) = Comma)}
    IN IF stops = {} THEN Len(val)
       ELSE CHOOSE k \in stops : \A m \in stops : k <= m
EndsInComma(s) == Len(s) > 0 /\ s[Len(s)] = Comma

\* C10: an unquoted value delivered to the sink is the input from the value's
\* start to the first whitespace byte (for names other than no-cache and
\* private: to the first whitespace byte or comma), less one trailing comma if
\* it ends in one; so outside no-cache and private it holds no comma.
C10_UnquotedValueExtent ==
    \A i \in Calls :
        (delivered[i].kind = "pair" /\ ~delivered[i].quoted) =>
            LET c == delivered[i]
                raw == Slice(val, c.at, ValueStop(c.name, c.at))
            IN /\ c.value = IF EndsInComma(raw) THEN SubSeq(raw, 1, Len(raw) - 1) ELSE raw
               /\ c.name \notin CommaValued => \A k \in 1..Len(c.value) : c.value[k] # Comma

\* private was delivered an unquoted value that kept an embedded comma and
\* lost its trailing one
C10_Witness ==
    \E i \in Calls :
        /\ delivered[i].kind = "pair" /\ ~delivered[i].quoted
        /\ delivered[i].name = HeaderPrivate
        /\ \E k \in 1..Len(delivered[i].value) : delivered[i].value[k] = Comma
        /\ EndsInComma(Slice(val, delivered[i].at, ValueStop(HeaderPrivate, delivered[i].at)))

====
